---------------------------- MODULE Spec2Model ----------------------------
(***************************************************************************)
(* Model of the number converter hook (src/useConverter.ts).               *)
(*                                                                         *)
(* A JavaScript string is a sequence of one-character strings.  A          *)
(* JavaScript number is a decimal value [neg, int, frac] (frac: digits     *)
(* after the point, no trailing zero) or NaN; within the bounds below      *)
(* every value has far fewer than 15 significant digits, where the host's  *)
(* String()/Number() are exact on decimals.  Values of 1e21 and more are   *)
(* outside the model.                                                      *)
(***************************************************************************)
EXTENDS Integers, Sequences, FiniteSets, TLC

VARIABLES
    options,      \* the options object passed to the last render
    memo,         \* the hook cells of useMemo / useCallback: value and deps
    heap,         \* the RegExp objects ever created, by identity
    renderCount,  \* number of re-renders so far
    out,          \* the last call: operation, argument, returned value
    trail         \* arguments of the earlier calls whose results were fed onward

vars == <<options, memo, heap, renderCount, out, trail>>

-----------------------------------------------------------------------------
(* Bounds of the model.                                                    *)

MaxPrecision == 2
MaxIntDigits == 7
MaxFracDigits == 3
MaxLen == 3
MaxFeeds == 2
MaxRenders == 1

-----------------------------------------------------------------------------
(* Strings and digits.                                                     *)

Digits == <<"0", "1", "2", "3", "4", "5", "6", "7", "8", "9">>

DigitChars == {Digits[i] : i \in 1..10}

isDigit(c) == c \in DigitChars

DigitValue(c) == CHOOSE d \in 0..9 : Digits[d + 1] = c

NEGATIVE_SIGN == "-"

DOT_SIGN == "."

Undefined == <<"undefined">>

UndefinedText == <<"u", "n", "d", "e", "f", "i", "n", "e", "d">>

RECURSIVE Reverse(_)
Reverse(s) == IF s = <<>> THEN <<>> ELSE Append(Reverse(Tail(s)), Head(s))

\* Length of the longest prefix of s (from position i on) made of chars in set
RECURSIVE RunLength(_, _, _)
RunLength(s, i, set) ==
    IF i <= Len(s) /\ s[i] \in set THEN 1 + RunLength(s, i + 1, set) ELSE 0

RECURSIVE IntDigits(_)
IntDigits(n) ==
    IF n < 10 THEN <<Digits[n + 1]>>
    ELSE Append(IntDigits(n \div 10), Digits[(n % 10) + 1])

RECURSIVE DigitsToInt(_)
DigitsToInt(s) ==
    IF s = <<>> THEN 0
    ELSE 10 * DigitsToInt(SubSeq(s, 1, Len(s) - 1)) + DigitValue(s[Len(s)])

RECURSIVE StripTrailingZeros(_)
StripTrailingZeros(s) ==
    IF s # <<>> /\ s[Len(s)] = "0"
    THEN StripTrailingZeros(SubSeq(s, 1, Len(s) - 1))
    ELSE s

RECURSIVE Zeroes(_)
Zeroes(n) == IF n <= 0 THEN <<>> ELSE <<"0">> \o Zeroes(n - 1)

-----------------------------------------------------------------------------
(* JavaScript numbers, String(value) and Number(string).                   *)

Num(neg, int, frac) == [kind |-> "num", neg |-> neg, int |-> int, frac |-> frac]

NaN == [kind |-> "NaN", neg |-> FALSE, int |-> 0, frac |-> <<>>]

isZero(x) == x.kind = "num" /\ x.int = 0 /\ x.frac = <<>>

\* x === y / x == y on numbers: NaN equals nothing, -0 equals +0
NumEq(x, y) ==
    /\ x.kind = "num"
    /\ y.kind = "num"
    /\ x.int = y.int
    /\ x.frac = y.frac
    /\ (x.neg = y.neg \/ isZero(x))

\* 1 / value === Number.NEGATIVE_INFINITY
isNegativeZero(x) == isZero(x) /\ x.neg

\* the host writes a value below 1e-6 in exponent notation
usesExponent(x) ==
    x.kind = "num" /\ x.int = 0 /\ RunLength(x.frac, 1, {"0"}) >= 6

\* String(value)
NumberToString(x) ==
    IF x.kind = "NaN" THEN <<"N", "a", "N">>
    ELSE IF isZero(x) THEN <<"0">>
    ELSE LET sign == IF x.neg THEN <<NEGATIVE_SIGN>> ELSE <<>>
         IN  IF usesExponent(x)
             THEN LET z == RunLength(x.frac, 1, {"0"})
                      sig == SubSeq(x.frac, z + 1, Len(x.frac))
                  IN  sign \o <<Head(sig)>>
                      \o (IF Len(sig) > 1 THEN <<DOT_SIGN>> \o Tail(sig) ELSE <<>>)
                      \o <<"e", "-">> \o IntDigits(z + 1)
             ELSE sign \o IntDigits(x.int)
                  \o (IF x.frac # <<>> THEN <<DOT_SIGN>> \o x.frac ELSE <<>>)

\* Number(string), on the strings toNumber reassembles: '' is 0, a sign or a
\* dot without any digit is NaN, any other character makes it NaN
StringToNumber(s) ==
    IF s = <<>> THEN Num(FALSE, 0, <<>>)
    ELSE LET neg == s[1] = NEGATIVE_SIGN
             p == IF neg THEN 2 ELSE 1
             ni == RunLength(s, p, DigitChars)
             dot == p + ni <= Len(s) /\ s[p + ni] = DOT_SIGN
             q == IF dot THEN p + ni + 1 ELSE p + ni
             nf == RunLength(s, q, DigitChars)
         IN  IF q + nf <= Len(s) \/ ni + nf = 0 THEN NaN
             ELSE Num(neg, DigitsToInt(SubSeq(s, p, p + ni - 1)),
                      StripTrailingZeros(SubSeq(s, q, q + nf - 1)))

-----------------------------------------------------------------------------
(* Regular expressions.  A RegExp object is [kind, sep, global, lastIndex]; *)
(* kind and sep say which pattern text the constructor was given.           *)

\* new RegExp(`\\${groupSeparator}`, 'g'): the separator behind a backslash
NewGroupSeparatorRegex(groupSeparator) ==
    [kind |-> "group", sep |-> groupSeparator, global |-> TRUE, lastIndex |-> 0]

\* new RegExp(`([-]?)([0-9]*)([${decimalSeparator}]?)([0-9]*)`), no flags
NewExtractionRegex(decimalSeparator) ==
    [kind |-> "extraction", sep |-> decimalSeparator, global |-> FALSE,
     lastIndex |-> 0]

\* Whether the one-atom pattern \<sep> matches the character c: behind a
\* backslash a letter may name a character class, anything else is itself
EscapedAtomMatches(sep, c) ==
    CASE sep = "d" -> c \in DigitChars
      [] sep = "D" -> c \notin DigitChars
      [] sep = "s" -> c = " "
      [] OTHER -> c = sep

\* RegExpBuiltinExec for the one-atom pattern: a global regex starts at its
\* lastIndex and leaves the end of the match there, or 0 when nothing matches.
\* index is the 1-based position of the matched character, 0 for null.
RegExpExec(re, s) ==
    LET start == IF re.global THEN re.lastIndex ELSE 0
        hits == {i \in (start + 1)..Len(s) : EscapedAtomMatches(re.sep, s[i])}
    IN  IF hits = {}
        THEN [index |-> 0, re |-> [re EXCEPT !.lastIndex = 0]]
        ELSE LET i == CHOOSE j \in hits : \A k \in hits : j <= k
             IN  [index |-> i,
                  re |-> IF re.global THEN [re EXCEPT !.lastIndex = i] ELSE re]

\* the exec loop of RegExp.prototype[Symbol.replace] with replacement ''
RECURSIVE ReplaceLoop(_, _, _)
ReplaceLoop(re, s, acc) ==
    LET m == RegExpExec(re, s)
    IN  IF m.index = 0
        THEN [str |-> acc \o SubSeq(s, re.lastIndex + 1, Len(s)), re |-> m.re]
        ELSE ReplaceLoop(m.re, s, acc \o SubSeq(s, re.lastIndex + 1, m.index - 1))

\* a single stateful exec, removing the one match it finds
StringReplaceExecOnce(re, s) ==
    LET m == RegExpExec(re, s)
    IN  IF m.index = 0 THEN [str |-> s, re |-> m.re]
        ELSE [str |-> SubSeq(s, 1, m.index - 1) \o SubSeq(s, m.index + 1, Len(s)),
              re |-> m.re]

\* string.replace(globalRegex, ''): lastIndex is set to 0, then the loop runs
StringReplace(re, s) == ReplaceLoop([re EXCEPT !.lastIndex = 0], s, <<>>)

\* the class [${decimalSeparator}] of the extraction pattern: ']' closes the
\* class at once, leaving the empty class [], '^' makes it the complement of
\* nothing, a backslash escapes the closing bracket
SeparatorClassKind(decimalSeparator) ==
    CASE decimalSeparator = "]" -> "empty"
      [] decimalSeparator = "^" -> "any"
      [] decimalSeparator = "\\" -> "unterminated"
      [] OTHER -> "char"

\* with a backslash the class runs on to the next ']': [\]?)([0-9], starred
UnterminatedClass == {"]", "?", ")", "(", "["} \cup DigitChars

\* string.match(extractionRegex): the four groups, or matched = FALSE for
\* null.  Every group is optional, so the match is found at index 0.
StringMatch(re, s) ==
    LET kind == SeparatorClassKind(re.sep)
        hasSign == s # <<>> /\ s[1] = NEGATIVE_SIGN
        p == IF hasSign THEN 2 ELSE 1
        ni == RunLength(s, p, DigitChars)
        q == p + ni
        sign == IF hasSign THEN <<NEGATIVE_SIGN>> ELSE <<>>
        integer == SubSeq(s, p, q - 1)
    IN  CASE kind = "empty" ->
               [matched |-> FALSE, sign |-> <<>>, integer |-> <<>>,
                separator |-> <<>>, fraction |-> <<>>]
          [] kind = "unterminated" ->
               [matched |-> TRUE, sign |-> sign, integer |-> integer,
                separator |-> SubSeq(s, q, q + RunLength(s, q, UnterminatedClass) - 1),
                fraction |-> Undefined]
          [] OTHER ->
               LET hasSep == q <= Len(s) /\ (kind = "any" \/ s[q] = re.sep)
                   r == IF hasSep THEN q + 1 ELSE q
               IN  [matched |-> TRUE, sign |-> sign, integer |-> integer,
                    separator |-> IF hasSep THEN <<s[q]>> ELSE <<>>,
                    fraction |-> SubSeq(s, r, r + RunLength(s, r, DigitChars) - 1)]

\* string.replace('.', decimalSeparator): the first dot only
RECURSIVE ReplaceFirstDot(_, _)
ReplaceFirstDot(s, decimalSeparator) ==
    IF s = <<>> THEN <<>>
    ELSE IF Head(s) = DOT_SIGN THEN <<decimalSeparator>> \o Tail(s)
    ELSE <<Head(s)>> \o ReplaceFirstDot(Tail(s), decimalSeparator)

-----------------------------------------------------------------------------
(* The hook: options, memoized cells, callbacks.                           *)

defaultOptions == [precision |-> 2, groupSeparator |-> " ", decimalSeparator |-> ","]

\* { ...defaultOptions, ...options }
MergedOptions(o) ==
    [f \in DOMAIN defaultOptions |-> IF f \in DOMAIN o THEN o[f] ELSE defaultOptions[f]]

Unmounted == [mounted |-> FALSE, deps |-> <<>>, value |-> 0]

\* useMemo / useCallback: the cell is kept while its dependencies are the same
useMemo(cell, deps, created) ==
    IF cell.mounted /\ cell.deps = deps THEN cell
    ELSE [mounted |-> TRUE, deps |-> deps, value |-> created]

\* identities of the RegExp objects a render may create
GroupRegexId(n) == 2 * n

ExtractionRegexId(n) == 2 * n + 1

groupSeparatorRegexDeps(o) == <<o.groupSeparator>>

extractionRegexDeps(o) == <<o.decimalSeparator>>

setGroupSeparatorsDeps(o) == <<o.groupSeparator>>

toStringDeps(o, extractionRegex) ==
    <<o.groupSeparator, o.decimalSeparator, extractionRegex, o.precision>>

toNumberDepsStale(o, extractionRegex) == <<extractionRegex>>

toNumberDeps(o, extractionRegex) == <<extractionRegex, o.groupSeparator>>

\* One run of the hook body as render number n (0 is the mount) over the
\* cells of the previous render: the new cells and the heap.
RenderHook(prev, h, opts, n) ==
    LET o == MergedOptions(opts)
        groupSeparatorRegex ==
            useMemo(prev.groupSeparatorRegex, groupSeparatorRegexDeps(o), GroupRegexId(n))
        extractionRegex ==
            useMemo(prev.extractionRegex, extractionRegexDeps(o), ExtractionRegexId(n))
        setGroupSeparators ==
            useMemo(prev.setGroupSeparators, setGroupSeparatorsDeps(o),
                    [id |-> n, groupSeparator |-> o.groupSeparator])
        toString ==
            useMemo(prev.toString, toStringDeps(o, extractionRegex.value),
                    [id |-> n,
                     decimalSeparator |-> o.decimalSeparator,
                     precision |-> o.precision,
                     extractionRegex |-> extractionRegex.value,
                     groupSeparatorRegex |-> groupSeparatorRegex.value,
                     setGroupSeparators |-> setGroupSeparators.value])
        toNumber ==
            useMemo(prev.toNumber, toNumberDeps(o, extractionRegex.value),
                    [id |-> n,
                     extractionRegex |-> extractionRegex.value,
                     groupSeparatorRegex |-> groupSeparatorRegex.value])
        h1 == IF groupSeparatorRegex.value = GroupRegexId(n)
              THEN (GroupRegexId(n) :> NewGroupSeparatorRegex(o.groupSeparator)) @@ h
              ELSE h
        h2 == IF extractionRegex.value = ExtractionRegexId(n)
              THEN (ExtractionRegexId(n) :> NewExtractionRegex(o.decimalSeparator)) @@ h1
              ELSE h1
    IN  [memo |-> [groupSeparatorRegex |-> groupSeparatorRegex,
                   extractionRegex |-> extractionRegex,
                   setGroupSeparators |-> setGroupSeparators,
                   toString |-> toString,
                   toNumber |-> toNumber],
         heap |-> h2]

NoCells == [c \in {"groupSeparatorRegex", "extractionRegex", "setGroupSeparators",
                   "toString", "toNumber"} |-> Unmounted]

EmptyHeap == [i \in {} |-> 0]

\* the first render of a component
Mount(opts) == RenderHook(NoCells, EmptyHeap, opts, 0)

-----------------------------------------------------------------------------
(* Values passed to and returned by the two callbacks.                     *)

Zero == Num(FALSE, 0, <<>>)

StringVal(s) == [type |-> "string", str |-> s, num |-> Zero]

NumberVal(x) == [type |-> "number", str |-> <<>>, num |-> x]

TypeError == [type |-> "TypeError", str |-> <<>>, num |-> Zero]

NoVal == [type |-> "none", str |-> <<>>, num |-> Zero]

\* value + fraction where fraction may be undefined
Concat(s, part) == s \o (IF part = Undefined THEN UndefinedText ELSE part)

\* the global replace of /([0-9]{3})/g by `$1${groupSeparator}`
RECURSIVE InsertAfterTriples(_, _, _)
InsertAfterTriples(s, i, groupSeparator) ==
    IF i > Len(s) THEN <<>>
    ELSE IF i + 2 <= Len(s) /\ \A k \in i..(i + 2) : isDigit(s[k])
    THEN SubSeq(s, i, i + 2) \o <<groupSeparator>>
         \o InsertAfterTriples(s, i + 3, groupSeparator)
    ELSE <<s[i]>> \o InsertAfterTriples(s, i + 1, groupSeparator)

setGroupSeparators(fn, value) ==
    LET enhanced == Reverse(InsertAfterTriples(Reverse(value), 1, fn.groupSeparator))
    IN  IF enhanced # <<>> /\ Head(enhanced) = fn.groupSeparator
        THEN Tail(enhanced)
        ELSE enhanced

\* the parts of toString's work, kept for the properties to inspect
toStringParts(fn, h, value) ==
    LET plain == ReplaceFirstDot(NumberToString(value), fn.decimalSeparator)
        valueAsString ==
            IF isZero(value)
            THEN (IF isNegativeZero(value) THEN <<NEGATIVE_SIGN>> ELSE <<>>) \o plain
            ELSE plain
        m == StringMatch(h[fn.extractionRegex], valueAsString)
        rep == StringReplace(h[fn.groupSeparatorRegex], m.integer)
        grouped == IF m.integer # <<>>
                   THEN setGroupSeparators(fn.setGroupSeparators, rep.str)
                   ELSE <<>>
        h1 == IF m.matched /\ m.integer # <<>>
              THEN [h EXCEPT ![fn.groupSeparatorRegex] = rep.re]
              ELSE h
        pads == fn.precision # 0 /\ m.fraction # Undefined
                /\ Len(m.fraction) < fn.precision
        fractionPart ==
            IF pads
            THEN <<fn.decimalSeparator>> \o m.fraction
                 \o Zeroes(fn.precision - Len(m.fraction))
            ELSE Concat(m.separator, m.fraction)
        throws == \/ ~m.matched
                  \/ fn.precision # 0 /\ m.fraction = Undefined
    IN  [valueAsString |-> valueAsString, m |-> m, cleared |-> rep.str,
         grouped |-> grouped, pads |-> pads, fractionPart |-> fractionPart,
         throws |-> throws, heap |-> h1,
         formatted |-> m.sign \o grouped \o fractionPart]

\* toString(value) of the callback object fn over the heap h
toString(fn, h, value) ==
    LET p == toStringParts(fn, h, value)
    IN  [ret |-> IF p.throws THEN TypeError ELSE StringVal(p.formatted),
         heap |-> p.heap]

\* the string toNumber decomposes: value.replace(groupSeparatorRegex, '')
toNumberStripped(fn, h, value) == StringReplace(h[fn.groupSeparatorRegex], value)

\* toNumber(value) of the callback object fn over the heap h
toNumber(fn, h, value) ==
    IF value = <<>> THEN [ret |-> NumberVal(NaN), heap |-> h]
    ELSE LET rep == toNumberStripped(fn, h, value)
             m == StringMatch(h[fn.extractionRegex], rep.str)
             formatted ==
                 Concat(m.sign \o m.integer
                        \o (IF m.separator # <<>> THEN <<DOT_SIGN>> ELSE <<>>),
                        m.fraction)
         IN  [ret |-> IF ~m.matched THEN TypeError
                      ELSE NumberVal(StringToNumber(formatted)),
              heap |-> [h EXCEPT ![fn.groupSeparatorRegex] = rep.re]]

-----------------------------------------------------------------------------
(* Inputs.                                                                 *)

\* an options field: left out, or given one of vals
Field(name, vals) == {[x \in {} |-> 0]} \cup {name :> v : v \in vals}

OptionsOver(P, G, D) ==
    {o \in {p @@ g @@ d : p \in Field("precision", P),
                          g \in Field("groupSeparator", G),
                          d \in Field("decimalSeparator", D)} :
        MergedOptions(o).groupSeparator # MergedOptions(o).decimalSeparator}

\* printable non-digit separators: plain ones and ones the patterns read as
\* syntax
Options == OptionsOver(0..MaxPrecision, {".", "-", "d"}, {".", "]", "^", "\\"})

HookOptions == OptionsOver({0, MaxPrecision}, {"-", "d"}, {"^"})

\* separators that both patterns read as the character itself
LiteralOptions == OptionsOver(0..MaxPrecision, {".", "_"}, {".", ";"})

RECURSIVE SeqsUpTo(_, _)
SeqsUpTo(chars, n) ==
    IF n = 0 THEN {<<>>}
    ELSE LET shorter == SeqsUpTo(chars, n - 1)
         IN  shorter \cup {Append(t, c) : t \in shorter, c \in chars}

IntInputs ==
    {DigitsToInt(SubSeq(Digits, 2, n + 1)) : n \in 0..MaxIntDigits}
    \cup {10 ^ k : k \in 3..(MaxIntDigits - 1)}

FracInputs == {f \in SeqsUpTo({"0", "5"}, MaxFracDigits) : f = StripTrailingZeros(f)}

SmallInputs == {<<"0", "0", "0", "0", "0", "0", "1">>,
                <<"0", "0", "0", "0", "0", "0", "1", "5">>}

\* finite numbers: plain decimals, both zeros, and values below 1e-6
NumberInputs ==
    {Num(neg, i, f) : neg \in BOOLEAN, i \in IntInputs, f \in FracInputs}
    \cup {Num(neg, 0, f) : neg \in BOOLEAN, f \in SmallInputs}

InputChars(o) == {"0", "1", NEGATIVE_SIGN, "x", o.groupSeparator, o.decimalSeparator}

StringInputs(o) == SeqsUpTo(InputChars(o), MaxLen)

ProbeNumbers == {Num(TRUE, 1234, <<"5">>), Num(FALSE, 0, <<>>), Num(FALSE, 12, <<"2", "5">>)}

ProbeStrings(o) ==
    LET g == o.groupSeparator
        d == o.decimalSeparator
    IN  {<<"1", g, "2", "3", "4", d, "5">>, <<"-", "1", "x", "2">>, <<"1", "d", "2">>}

-----------------------------------------------------------------------------
(* The state machine.                                                      *)

Idle == [op |-> "none", arg |-> NoVal, ret |-> NoVal]

MountWith(opts) ==
    /\ options \in opts
    /\ memo = Mount(options).memo
    /\ heap = Mount(options).heap
    /\ renderCount = 0
    /\ out = Idle
    /\ trail = <<>>

Init == MountWith(Options)

HookInit == MountWith(HookOptions)

\* the component renders again with new props
Rerender(opts) ==
    /\ renderCount < MaxRenders
    /\ LET r == RenderHook(memo, heap, opts, renderCount + 1)
       IN  /\ memo' = r.memo
           /\ heap' = r.heap
    /\ options' = opts
    /\ renderCount' = renderCount + 1
    /\ UNCHANGED <<out, trail>>

ApplyToString(value, fed) ==
    LET r == toString(memo.toString.value, heap, value)
    IN  /\ out' = [op |-> "toString", arg |-> NumberVal(value), ret |-> r.ret]
        /\ heap' = r.heap
        /\ trail' = fed
        /\ UNCHANGED <<options, memo, renderCount>>

ApplyToNumber(value, fed) ==
    LET r == toNumber(memo.toNumber.value, heap, value)
    IN  /\ out' = [op |-> "toNumber", arg |-> StringVal(value), ret |-> r.ret]
        /\ heap' = r.heap
        /\ trail' = fed
        /\ UNCHANGED <<options, memo, renderCount>>

\* a caller formats one of the numbers
CallToString(numbers) ==
    /\ out = Idle
    /\ \E value \in numbers : ApplyToString(value, <<>>)

\* a caller parses one of the strings
CallToNumber(strings) ==
    /\ out = Idle
    /\ \E value \in strings : ApplyToNumber(value, <<>>)

\* the caller parses the string toString has just returned
FeedToNumber ==
    /\ out.op = "toString"
    /\ out.ret.type = "string"
    /\ Len(trail) < MaxFeeds
    /\ ApplyToNumber(out.ret.str, Append(trail, out.arg))

\* the caller formats the number toNumber has just returned
FeedToString ==
    /\ out.op = "toNumber"
    /\ out.ret.type = "number"
    /\ Len(trail) < MaxFeeds
    /\ ApplyToString(out.ret.num, Append(trail, out.arg))

\* the caller drops the returned value
Discard ==
    /\ out # Idle
    /\ out' = Idle
    /\ trail' = <<>>
    /\ UNCHANGED <<options, memo, heap, renderCount>>

Next ==
    \/ CallToString(NumberInputs)
    \/ CallToNumber(StringInputs(MergedOptions(options)))
    \/ FeedToNumber
    \/ FeedToString
    \/ Discard

Spec == Init /\ [][Next]_vars

\* the same converter calls, under literal separators only
LiteralSpec == MountWith(LiteralOptions) /\ [][Next]_vars

HookNext ==
    \/ \E opts \in HookOptions : Rerender(opts)
    \/ CallToString(ProbeNumbers)
    \/ CallToNumber(ProbeStrings(MergedOptions(options)))
    \/ Discard

HookSpec == HookInit /\ [][HookNext]_vars

-----------------------------------------------------------------------------
(* What the properties speak about.                                        *)

cfg == MergedOptions(options)

\* s with every occurrence of the character c removed
RECURSIVE Without(_, _)
Without(s, c) ==
    IF s = <<>> THEN <<>>
    ELSE (IF Head(s) = c THEN <<>> ELSE <<Head(s)>>) \o Without(Tail(s), c)

\* the host representation String(x) read by its own grammar: sign, integer
\* digits, a dot, fraction digits (then, for small values, an exponent)
HostParts(x) ==
    LET s == NumberToString(x)
        p == IF s[1] = NEGATIVE_SIGN THEN 2 ELSE 1
        ni == RunLength(s, p, DigitChars)
        dot == p + ni <= Len(s) /\ s[p + ni] = DOT_SIGN
        q == IF dot THEN p + ni + 1 ELSE p + ni
    IN  [integer |-> SubSeq(s, p, p + ni - 1), dot |-> dot,
         fraction |-> SubSeq(s, q, q + RunLength(s, q, DigitChars) - 1)]

\* a finite number was formatted by the call just made
Formatted == out.op = "toString" /\ out.arg.num.kind = "num"

\* a non-empty string was parsed by the call just made
Parsed == out.op = "toNumber" /\ out.arg.str # <<>>

\* the work of the toString call just made, redone on a new converter
FormattedParts ==
    toStringParts(Mount(options).memo.toString.value, Mount(options).heap, out.arg.num)

\* the string the toNumber call just made decomposed
ParsedStripped ==
    toNumberStripped(Mount(options).memo.toNumber.value, Mount(options).heap,
                     out.arg.str).str

\* the longest prefix of s of the form: optional '-', digits, optional single
\* decimalSeparator, digits
LongestPrefix(s, decimalSeparator) ==
    LET p == IF s # <<>> /\ s[1] = NEGATIVE_SIGN THEN 2 ELSE 1
        q == p + RunLength(s, p, DigitChars)
        r == IF q <= Len(s) /\ s[q] = decimalSeparator THEN q + 1 ELSE q
    IN  SubSeq(s, 1, r + RunLength(s, r, DigitChars) - 1)

\* the same prefix as a decimal literal: its separator written as a dot
PrefixLiteral(s, decimalSeparator) ==
    LET prefix == LongestPrefix(s, decimalSeparator)
        p == IF prefix # <<>> /\ prefix[1] = NEGATIVE_SIGN THEN 2 ELSE 1
        q == p + RunLength(prefix, p, DigitChars)
    IN  [i \in 1..Len(prefix) |-> IF i = q THEN DOT_SIGN ELSE prefix[i]]

\* t is the digit string d cut into groups of three from the right, joined by g
GroupedByThree(t, d, g) ==
    /\ Without(t, g) = d
    /\ Len(t) = Len(d) + ((Len(d) - 1) \div 3)
    /\ \A i \in 1..Len(t) : (t[i] = g) <=> ((Len(t) - i + 1) % 4 = 0)

\* what a converter built from scratch with these options returns
FreshToString(opts, value) ==
    toString(Mount(opts).memo.toString.value, Mount(opts).heap, value).ret

FreshToNumber(opts, value) ==
    toNumber(Mount(opts).memo.toNumber.value, Mount(opts).heap, value).ret

-----------------------------------------------------------------------------
(* The claims.                                                             *)

\* C1: for every allowed configuration and every finite x written without
\* exponent and with at most `precision` fraction digits,
\* toNumber(toString(x)) is numerically equal to x.
RoundTrip ==
    (/\ out.op = "toNumber"
     /\ Len(trail) = 1
     /\ trail[1].num.kind = "num"
     /\ ~usesExponent(trail[1].num)
     /\ Len(trail[1].num.frac) <= cfg.precision)
    => /\ out.ret.type = "number"
       /\ NumEq(out.ret.num, trail[1].num)

\* C2: toNumber returns NaN, and does not throw, for the empty string and for
\* every input whose decomposition after stripping has no digit in the integer
\* part and none in the fraction part.
InvalidInputIsNaN ==
    (/\ out.op = "toNumber"
     /\ \/ out.arg.str = <<>>
        \/ LET prefix == LongestPrefix(Without(out.arg.str, cfg.groupSeparator),
                                       cfg.decimalSeparator)
           IN  \A i \in 1..Len(prefix) : ~isDigit(prefix[i]))
    => out.ret = NumberVal(NaN)

\* C3: when the host representation has integer digits d, the integer part of
\* toString's output is d in groups of three from the right joined by
\* groupSeparator, and removing the separators gives back d.
Grouping ==
    (Formatted /\ out.ret.type = "string" /\ HostParts(out.arg.num).integer # <<>>)
    => GroupedByThree(FormattedParts.grouped, HostParts(out.arg.num).integer,
                      cfg.groupSeparator)

\* C4: after the integer part the output is decimalSeparator and the source's
\* fraction digits padded with zeros to `precision` digits when precision > 0
\* and there are fewer of them; otherwise it is the source's separator, if any,
\* and the fraction digits unchanged.
FractionPolicy ==
    Formatted =>
        LET h == HostParts(out.arg.num)
            expected ==
                IF cfg.precision > 0 /\ Len(h.fraction) < cfg.precision
                THEN <<cfg.decimalSeparator>> \o h.fraction
                     \o Zeroes(cfg.precision - Len(h.fraction))
                ELSE (IF h.dot THEN <<cfg.decimalSeparator>> ELSE <<>>) \o h.fraction
        IN  /\ out.ret.type = "string"
            /\ out.ret.str = FormattedParts.m.sign \o FormattedParts.grouped \o expected

\* C5: toString(-0) starts with the negative sign and toString(+0) does not;
\* toNumber(toString(-0)) compares equal to zero, and toString renders it as
\* toString(-0) again.
NegativeZero ==
    /\ (out.op = "toString" /\ trail = <<>> /\ isZero(out.arg.num)
        /\ out.ret.type = "string")
       => ((out.ret.str # <<>> /\ Head(out.ret.str) = NEGATIVE_SIGN)
           <=> out.arg.num.neg)
    /\ (out.op = "toNumber" /\ trail = <<NumberVal(Num(TRUE, 0, <<>>))>>)
       => (out.ret.type = "number" /\ isZero(out.ret.num))
    /\ (out.op = "toString" /\ Len(trail) = 2
        /\ trail[1] = NumberVal(Num(TRUE, 0, <<>>)))
       => out.ret = trail[2]

\* C6: for every finite number and every allowed configuration toString
\* returns a string, made only of digits, the two separators and at most one
\* negative sign, which is then the first character.
OutputShape ==
    Formatted =>
        /\ out.ret.type = "string"
        /\ \A i \in 1..Len(out.ret.str) :
              LET c == out.ret.str[i]
              IN  \/ isDigit(c)
                  \/ c \in {cfg.groupSeparator, cfg.decimalSeparator}
                  \/ c = NEGATIVE_SIGN /\ i = 1

\* C7: the string toNumber decomposes, and the integer digits toString
\* regroups, are the original with every groupSeparator removed and every other
\* character kept in order.
StrippingIsExact ==
    /\ Parsed => ParsedStripped = Without(out.arg.str, cfg.groupSeparator)
    /\ (Formatted /\ FormattedParts.m.matched)
       => FormattedParts.cleared
              = Without(FormattedParts.m.integer, cfg.groupSeparator)

\* C8: toNumber's result is the number written by the longest prefix of the
\* stripped input of the form optional '-', digits, optional single
\* decimalSeparator, digits; nothing after that prefix, and no digit after a
\* leading foreign character, enters the result.
AnchoredDecomposition ==
    Parsed =>
        out.ret = NumberVal(StringToNumber(
                      PrefixLiteral(ParsedStripped, cfg.decimalSeparator)))

\* C9: after any sequence of earlier calls on the same converter a call
\* returns what a freshly constructed converter returns, and no call leaves
\* state behind in the shared RegExp objects.
Stateless ==
    /\ heap = Mount(options).heap
    /\ out.op = "toString" => out.ret = FreshToString(options, out.arg.num)
    /\ out.op = "toNumber" => out.ret = FreshToNumber(options, out.arg.str)

\* reached after a toString and a toNumber call whose global regex matched
StatelessWitness ==
    /\ out.op = "toString"
    /\ out.ret.type = "string"
    /\ Len(trail) = 2
    /\ trail[2].str # Without(trail[2].str, cfg.groupSeparator)

\* the callbacks held in the cells m, over the heap h, behave as those of a
\* converter built from scratch with the options opts
BehavesAsFresh(m, h, opts) ==
    /\ \A value \in ProbeNumbers :
          toString(m.toString.value, h, value).ret = FreshToString(opts, value)
    /\ \A value \in ProbeStrings(MergedOptions(opts)) :
          toNumber(m.toNumber.value, h, value).ret = FreshToNumber(opts, value)

\* C10: over any sequence of renders the callbacks a render returns behave as
\* a converter built from scratch with that render's merged options, and they
\* are the function objects of the previous render when no option changed.
NoStaleConfiguration ==
    /\ []BehavesAsFresh(memo, heap, options)
    /\ [][(renderCount' # renderCount /\ MergedOptions(options') = cfg)
          => /\ memo'.toString.value = memo.toString.value
             /\ memo'.toNumber.value = memo.toNumber.value]_vars

\* a re-render that changed the precision only: toString is a new function,
\* toNumber is the one of the mount, and a call has gone through since
NoStaleWitness ==
    /\ renderCount = 1
    /\ memo.toString.value.id = 1
    /\ memo.toNumber.value.id = 0
    /\ out.op = "toNumber"
    /\ out.ret.type = "number"
    /\ ~isZero(out.ret.num)

=============================================================================
